---- MODULE Spec2Model ----
(***************************************************************************)
(* Model of wordlesolver.py (class WordleSover).                           *)
(*                                                                         *)
(* A word is a tuple of one-letter strings, so that letters can be         *)
(* indexed.  Python indexes from 0, TLA+ from 1: position `index` of the   *)
(* source is position index + 1 here.                                      *)
(*                                                                         *)
(* __valid_words, __working_list and __scored_words are attributes of the  *)
(* class and are only ever mutated in place, so every object sees the same *)
(* three containers.  __letter_count is rebound on the object by           *)
(* __score_words (line 91), so each object has its own.                    *)
(***************************************************************************)
EXTENDS Integers, Sequences, FiniteSets, TLC

VARIABLES
    valid_words,    \* class attribute __valid_words: a list of words
    working_list,   \* class attribute __working_list: a list of words
    letter_count,   \* per object: the Counter bound to self.__letter_count
    scored_words,   \* class attribute __scored_words: insertion-ordered dict,
                    \* a sequence of <<word, score>> with distinct words
    objects,        \* the WordleSover objects constructed so far
    zipf,           \* wordfreq.zipf_frequency(word, "en"), in hundredths
    last            \* the most recent call: its arguments and its outcome

vars == <<valid_words, working_list, letter_count, scored_words, objects, zipf, last>>

----------------------------------------------------------------------------
(* Bounds and inputs *)

WordLen == 5
MaxSessions == 2
MaxK == 5

Sessions == 1..MaxSessions
Ks == (0 - MaxK)..MaxK

apple == <<"a", "p", "p", "l", "e">>
anger == <<"a", "n", "g", "e", "r">>
zebra == <<"z", "e", "b", "r", "a">>
eagle == <<"e", "a", "g", "l", "e">>

\* The lines of valid-words.csv, in file order.
ValidWordsFile == <<apple, anger, zebra, eagle>>

\* Tables of zipf_frequency in hundredths: every word equally common, and
\* tables that set words apart by half a point or a whole one.
ZipfTables ==
    {[w \in {apple, anger, zebra, eagle} |-> 0],
     [w \in {apple, anger, zebra, eagle} |-> IF w = zebra THEN 50 ELSE 0],
     [w \in {apple, anger, zebra, eagle} |-> IF w \in {anger, eagle} THEN 100 ELSE 450]}

Marks == {"-", "y", "g"}

Range(f) == {f[i] : i \in DOMAIN f}

\* The distinct letters of a word: set(word).
LetterSet(word) == Range(word)

Letters == UNION {LetterSet(w) : w \in Range(ValidWordsFile)}

----------------------------------------------------------------------------
(* Counter *)

\* Counter(): no keys.
EmptyCounter == [l \in {} |-> 0]

\* Counter.__getitem__: a missing key reads as 0.
CounterGet(c, l) == IF l \in DOMAIN c THEN c[l] ELSE 0

RECURSIVE CountIn(_, _)
\* The number of positions of the sequence `letters` that hold l.
CountIn(letters, l) ==
    IF letters = <<>> THEN 0
    ELSE (IF Head(letters) = l THEN 1 ELSE 0) + CountIn(Tail(letters), l)

RECURSIVE Chain(_)
\* chain.from_iterable(words): the letters of all the words, in order.
Chain(words) ==
    IF words = <<>> THEN <<>> ELSE Head(words) \o Chain(Tail(words))

\* __get_letter_usage counting each word once per letter, as
\* Counter(chain.from_iterable(set(w) for w in self.__working_list)) would.
get_letter_usage_distinct(wl) ==
    [l \in Range(Chain(wl)) |-> Cardinality({i \in DOMAIN wl : l \in Range(wl[i])})]

\* __get_letter_usage: Counter(chain.from_iterable(self.__working_list)).
get_letter_usage(wl) ==
    LET letters == Chain(wl)
    IN  [l \in Range(letters) |-> CountIn(letters, l)]

----------------------------------------------------------------------------
(* Scoring *)

RECURSIVE SumCounts(_, _)
\* The sum of the counts of the letters of the set S.
SumCounts(S, lc) ==
    IF S = {} THEN 0
    ELSE LET l == CHOOSE x \in S : TRUE
         IN  CounterGet(lc, l) + SumCounts(S \ {l}, lc)

\* __get_frequency_score: zipf_frequency(word, "en") * 2, in hundredths.
get_frequency_score(word) == zipf[word] * 2

\* __get_word_score: the counts of the distinct letters of the word, plus the
\* frequency score.  Scores are kept in hundredths, the resolution of
\* zipf_frequency, so that the sum stays an integer.
get_word_score(word, lc) ==
    100 * SumCounts(LetterSet(word), lc) + get_frequency_score(word)

\* The position of the key in the dict, 0 when the dict does not hold it.
DictIndex(d, key) ==
    IF \E i \in DOMAIN d : d[i][1] = key
    THEN CHOOSE i \in DOMAIN d : d[i][1] = key
    ELSE 0

\* d[key] = value on an insertion-ordered dict: a key the dict holds keeps
\* its place, a new key goes last.
DictSet(d, key, value) ==
    IF DictIndex(d, key) = 0
    THEN Append(d, <<key, value>>)
    ELSE [d EXCEPT ![DictIndex(d, key)] = <<key, value>>]

DictKeys(d) == {d[i][1] : i \in DOMAIN d}

RECURSIVE ScoreAll(_, _, _)
\* The loop of __score_words (lines 94-95) over the words wl, into the dict d.
ScoreAll(wl, lc, d) ==
    IF wl = <<>> THEN d
    ELSE ScoreAll(Tail(wl), lc, DictSet(d, Head(wl), get_word_score(Head(wl), lc)))

\* __score_words without line 89: the old entries of the dict are kept.
score_words_keeps_old(wl, old) ==
    LET lc == get_letter_usage(wl)
    IN  [letter_count |-> lc, scored_words |-> ScoreAll(wl, lc, old)]

\* __score_words: the object's new Counter and the contents of the shared
\* dict, which is cleared and filled again from the working list.
score_words(wl, old) ==
    LET lc == get_letter_usage(wl)
    IN  [letter_count |-> lc, scored_words |-> ScoreAll(wl, lc, <<>>)]

----------------------------------------------------------------------------
(* Filters *)

\* __gray_letter reading self.__valid_words instead of the working list.
gray_letter_from_valid(wl, letter) ==
    SelectSeq(valid_words, LAMBDA word : letter \notin Range(word))

\* __gray_letter: the words that do not have the letter.
gray_letter(wl, letter) ==
    SelectSeq(wl, LAMBDA word : letter \notin Range(word))

\* __green_letter testing `letter in word` instead of word[location].
green_letter_anywhere(wl, letter, location) ==
    SelectSeq(wl, LAMBDA word : letter \in Range(word))

\* __green_letter: the words that have the letter at the location.
green_letter(wl, letter, location) ==
    SelectSeq(wl, LAMBDA word : word[location] = letter)

\* __yellow_letter without the inner test of line 149.
yellow_letter_no_membership(wl, letter, location) ==
    SelectSeq(wl, LAMBDA word : word[location] # letter)

\* __yellow_letter: the words that have the letter, but not at the location.
yellow_letter(wl, letter, location) ==
    SelectSeq(wl, LAMBDA word : word[location] # letter /\ letter \in Range(word))

RECURSIVE refine_loop(_, _, _, _)
\* The loop of __refine_working_list from position index on.  result_key[index]
\* is read first and guess[index] second; reading past the end of either
\* raises IndexError, which leaves the loop with the filters of the earlier
\* positions already applied to the working list.
refine_loop(wl, guess, result_key, index) ==
    IF index > WordLen THEN [working_list |-> wl, outcome |-> "ok"]
    ELSE IF index > Len(result_key) \/ index > Len(guess)
         THEN [working_list |-> wl, outcome |-> "IndexError"]
    ELSE IF result_key[index] = "-"
         THEN refine_loop(gray_letter(wl, guess[index]), guess, result_key, index + 1)
    ELSE IF result_key[index] = "y"
         THEN refine_loop(yellow_letter(wl, guess[index], index), guess, result_key, index + 1)
    ELSE refine_loop(green_letter(wl, guess[index], index), guess, result_key, index + 1)

----------------------------------------------------------------------------
(* Recommendation *)

RECURSIVE InsertAscending(_, _)
InsertAscending(s, item) ==
    IF s = <<>> THEN <<item>>
    ELSE IF Head(s)[2] <= item[2]
         THEN <<Head(s)>> \o InsertAscending(Tail(s), item)
         ELSE <<item>> \o s

RECURSIVE InsertDescending(_, _)
\* The item goes after every item whose score is at least its own, so that
\* items of equal score stay in the order they came in.
InsertDescending(s, item) ==
    IF s = <<>> THEN <<item>>
    ELSE IF Head(s)[2] >= item[2]
         THEN <<Head(s)>> \o InsertDescending(Tail(s), item)
         ELSE <<item>> \o s

RECURSIVE SortedAscendingFrom(_, _)
SortedAscendingFrom(items, acc) ==
    IF items = <<>> THEN acc
    ELSE SortedAscendingFrom(Tail(items), InsertAscending(acc, Head(items)))

RECURSIVE SortedDescendingFrom(_, _)
SortedDescendingFrom(items, acc) ==
    IF items = <<>> THEN acc
    ELSE SortedDescendingFrom(Tail(items), InsertDescending(acc, Head(items)))

\* sorted(items, key=lambda item: item[1]) without reverse=True.
sorted_ascending(items) == SortedAscendingFrom(items, <<>>)

\* sorted(items, key=lambda item: item[1], reverse=True): a stable sort.
sorted_by_score(items) == SortedDescendingFrom(items, <<>>)

\* items[:k]: the first k items, and for a negative k all but the last -k.
SliceTo(items, k) ==
    LET n == Len(items)
        stop == IF k >= 0 THEN (IF k < n THEN k ELSE n)
                ELSE (IF n + k > 0 THEN n + k ELSE 0)
    IN  SubSeq(items, 1, stop)

\* __get_recommendation: dict(sorted(...)[:recommendations]).
get_recommendation(scored, recommendations) ==
    SliceTo(sorted_by_score(scored), recommendations)

----------------------------------------------------------------------------
(* Inputs of the calls *)

\* Every result key of WordLen recognized marks.
ValidKeys == [1..WordLen -> Marks]

\* Result keys that are too short, too long, or hold a mark that is none of
\* "-", "y" and "g".
ShortKeys == {<<>>, <<"g", "-">>, <<"-", "-", "-", "-">>, <<"y", "-", "-", "-">>}
LongKeys == {<<"g", "-", "-", "-", "-", "-">>, <<"-", "-", "-", "-", "g", "y">>}
UnknownMarkKeys == {<<"x", "-", "-", "-", "-">>, <<"-", "-", "-", "-", "G">>,
                    <<"Y", "-", "-", "-", "-">>}

Guesses == {apple, zebra}
ShortGuesses == {<<"a", "p", "p", "l">>, <<"z">>}
LongGuesses == {<<"a", "p", "p", "l", "e", "s">>}

\* The (guess, result_key) pairs the calls are made with.
Inputs ==
    (Guesses \X (ValidKeys \cup ShortKeys \cup LongKeys \cup UnknownMarkKeys))
    \cup ((ShortGuesses \cup LongGuesses)
          \X {<<"-", "-", "-", "-", "-">>, <<"g", "-", "-", "-", "-">>,
              <<"-", "y", "-", "-", "-">>})

NoCall ==
    [op |-> "none", self |-> 0, guess |-> <<>>, result_key |-> <<>>,
     outcome |-> "ok", recommendations |-> 0, ret |-> <<>>]

----------------------------------------------------------------------------
(* The program *)

Init ==
    /\ valid_words = <<>>
    /\ working_list = <<>>
    /\ letter_count = [s \in Sessions |-> EmptyCounter]
    /\ scored_words = <<>>
    /\ objects = {}
    /\ zipf \in ZipfTables
    /\ last = NoCall

\* __prepare_game, lines 36-39: the working list is cleared and filled with
\* the valid words.
prepare_game(wl, vw) == vw

\* WordleSover(): __init__ extends the shared __valid_words with the lines of
\* the file, then __prepare_game resets the shared working list and scores it.
WordleSover(self) ==
    /\ self \notin objects
    /\ objects' = objects \cup {self}
    /\ valid_words' = valid_words \o ValidWordsFile
    /\ working_list' = prepare_game(working_list, valid_words')
    /\ LET scored == score_words(working_list', scored_words)
       IN  /\ letter_count' = [letter_count EXCEPT ![self] = scored.letter_count]
           /\ scored_words' = scored.scored_words
    /\ last' = [NoCall EXCEPT !.op = "init", !.self = self]
    /\ UNCHANGED zipf

\* __refine_working_list(guess, result_key).  When the loop raises, the
\* exception leaves the method before line 173, so nothing is scored again.
refine_working_list(self, guess, result_key) ==
    /\ self \in objects
    /\ LET r == refine_loop(working_list, guess, result_key, 1)
       IN  /\ working_list' = r.working_list
           /\ IF r.outcome = "ok"
              THEN LET scored == score_words(working_list', scored_words)
                   IN  /\ letter_count' =
                              [letter_count EXCEPT ![self] = scored.letter_count]
                       /\ scored_words' = scored.scored_words
              ELSE UNCHANGED <<letter_count, scored_words>>
           /\ last' = [NoCall EXCEPT !.op = "refine", !.self = self,
                                     !.guess = guess, !.result_key = result_key,
                                     !.outcome = r.outcome]
    /\ UNCHANGED <<valid_words, objects, zipf>>

\* __get_recommendation(recommendations), as play calls it on line 206.
GetRecommendation(self, recommendations) ==
    /\ self \in objects
    /\ last' = [NoCall EXCEPT !.op = "recommend", !.self = self,
                              !.recommendations = recommendations,
                              !.ret = get_recommendation(scored_words, recommendations)]
    /\ UNCHANGED <<valid_words, working_list, letter_count, scored_words, objects, zipf>>

\* The program as __main__ runs it: one object, and the calls that play makes
\* on it.
Next ==
    \/ WordleSover(1)
    \/ \E input \in Inputs : refine_working_list(1, input[1], input[2])
    \/ \E k \in Ks : GetRecommendation(1, k)

Spec == Init /\ [][Next]_vars

\* The (guess, result_key) pairs of the calls when several objects are alive.
InputsTwo ==
    Guesses \X {<<"g", "-", "-", "-", "-">>, <<"-", "-", "-", "-", "-">>,
                <<"y", "-", "-", "-", "-">>, <<"g", "y", "-", "-", "-">>,
                <<"-", "-">>}

\* Several objects in one process, their calls interleaved in any order.
NextTwo ==
    \/ \E self \in Sessions : WordleSover(self)
    \/ \E self \in Sessions, input \in InputsTwo :
           refine_working_list(self, input[1], input[2])
    \/ \E self \in Sessions, k \in Ks : GetRecommendation(self, k)

SpecTwo == Init /\ [][NextTwo]_vars

----------------------------------------------------------------------------
(* Vocabulary of the properties *)

\* A guess of WordLen letters and a result key of WordLen recognized marks.
WellFormed(guess, result_key) ==
    /\ Len(guess) = WordLen
    /\ Len(result_key) = WordLen
    /\ \A i \in 1..WordLen : result_key[i] \in Marks

\* The word satisfies the mark of every position.
Consistent(word, guess, result_key) ==
    \A i \in 1..WordLen :
        /\ result_key[i] = "g" => word[i] = guess[i]
        /\ result_key[i] = "-" => guess[i] \notin Range(word)
        /\ result_key[i] = "y" => (word[i] # guess[i] /\ guess[i] \in Range(word))

\* How many times the letter occurs in the words, every occurrence counted.
Occurrences(wl, l) ==
    Cardinality({p \in (DOMAIN wl) \X (1..WordLen) : wl[p[1]][p[2]] = l})

\* How many of the words hold the letter.
WordsHolding(wl, l) ==
    Cardinality({i \in DOMAIN wl : l \in Range(wl[i])})

\* The last call was a session start or an apply_feedback that completed.
TurnBoundary == last.op \in {"init", "refine"} /\ last.outcome = "ok"

Min(a, b) == IF a < b THEN a ELSE b

----------------------------------------------------------------------------
(* Filtering *)

\* C1: a call of __refine_working_list with a guess of five letters and a key
\* of five recognized marks leaves exactly the words of the working list that
\* satisfy the mark of every position, in their order: nothing else survives
\* and no word that satisfies all five is removed.
C1_FilterIsConjunctive ==
    [][(last'.op = "refine" /\ WellFormed(last'.guess, last'.result_key))
        => working_list' =
              SelectSeq(working_list,
                        LAMBDA w : Consistent(w, last'.guess, last'.result_key))]_vars

\* A call whose key holds a gray, a yellow and a green mark has narrowed the
\* working list to some of its words.
C1_Witness ==
    /\ last.op = "refine"
    /\ WellFormed(last.guess, last.result_key)
    /\ Marks \subseteq Range(last.result_key)
    /\ working_list # <<>>
    /\ Len(working_list) < Len(valid_words)

\* C2: the working list holds only words of the dictionary, and a call of
\* __refine_working_list, completed or not, leaves no word in it that was not
\* in it before and does not make it longer.
C2_MonotonicShrink ==
    [][/\ Range(working_list') \subseteq Range(valid_words')
       /\ last'.op = "refine"
            => /\ Range(working_list') \subseteq Range(working_list)
               /\ Len(working_list') <= Len(working_list)]_vars

\* A call has left two of the words of the dictionary.
C2_Witness ==
    /\ last.op = "refine"
    /\ Len(working_list) = 2
    /\ Len(valid_words) > 2
    /\ Range(working_list) \subseteq Range(valid_words)

\* C9: two consecutive calls that mark one position green with different
\* letters leave the working list empty; an empty working list stays empty
\* under every later call of __refine_working_list; scoring an empty working
\* list leaves no count and no scored word, and a recommendation over no
\* scored words is empty.
C9_EmptyIsAbsorbing ==
    [][/\ (/\ last.op = "refine" /\ last'.op = "refine"
           /\ WellFormed(last.guess, last.result_key)
           /\ WellFormed(last'.guess, last'.result_key)
           /\ \E i \in 1..WordLen :
                 /\ last.result_key[i] = "g" /\ last'.result_key[i] = "g"
                 /\ last.guess[i] # last'.guess[i])
            => working_list' = <<>>
       /\ (working_list = <<>> /\ last'.op = "refine") => working_list' = <<>>
       /\ (last'.op = "refine" /\ last'.outcome = "ok" /\ working_list' = <<>>)
            => (scored_words' = <<>> /\ DOMAIN letter_count'[last'.self] = {})
       /\ (last'.op = "recommend" /\ scored_words' = <<>>) => last'.ret = <<>>]_vars

\* The key that names zebra as the solution, received after zebra was
\* eliminated, has left nothing, and nothing is scored.
C9_Witness ==
    /\ last.op = "refine"
    /\ last.outcome = "ok"
    /\ last.guess = zebra
    /\ \A i \in 1..WordLen : last.result_key[i] = "g"
    /\ Len(last.result_key) = WordLen
    /\ working_list = <<>>
    /\ scored_words = <<>>

----------------------------------------------------------------------------
(* Letter counts and scores *)

\* C3, as claimed: after a session start or a completed call, the count of
\* each letter is the number of words of the working list that hold the
\* letter, so no count exceeds the length of the working list.
C3_CountsWordsHolding ==
    TurnBoundary =>
        \A l \in Letters :
            /\ CounterGet(letter_count[last.self], l) = WordsHolding(working_list, l)
            /\ CounterGet(letter_count[last.self], l) <= Len(working_list)

\* C3, amended: the count of each letter is the number of its occurrences in
\* the words of the working list, a doubled letter counted twice, so no count
\* exceeds WordLen times the length of the working list; the table has a key
\* for exactly the letters that occur, and none for an empty working list.
C3_CountsOccurrences ==
    TurnBoundary =>
        /\ \A l \in Letters :
              /\ CounterGet(letter_count[last.self], l) = Occurrences(working_list, l)
              /\ CounterGet(letter_count[last.self], l) <= WordLen * Len(working_list)
        /\ DOMAIN letter_count[last.self] =
              {l \in Letters : Occurrences(working_list, l) > 0}
        /\ working_list = <<>> => letter_count[last.self] = EmptyCounter

\* Only apple is left, and the count of p is 2.
C3_Witness ==
    /\ TurnBoundary
    /\ working_list = <<apple>>
    /\ CounterGet(letter_count[last.self], "p") = 2

\* C10: after a session start and after every completed call of
\* __refine_working_list, the Counter of the object is the one computed from
\* the working list as it is now, and the scored words are the words of the
\* working list, each once, each with the score computed from that Counter.
C10_ScoresFollowWorkingList ==
    TurnBoundary =>
        /\ letter_count[last.self] = get_letter_usage(working_list)
        /\ DictKeys(scored_words) = Range(working_list)
        /\ Cardinality(DictKeys(scored_words)) = Len(scored_words)
        /\ \A i \in DOMAIN scored_words :
              scored_words[i][2] =
                  get_word_score(scored_words[i][1], get_letter_usage(working_list))

\* A completed call has eliminated words, and the words that are left are
\* the ones scored.
C10_Witness ==
    /\ last.op = "refine"
    /\ last.outcome = "ok"
    /\ Len(working_list) \in 1..(Len(valid_words) - 1)
    /\ Len(scored_words) = Len(working_list)

----------------------------------------------------------------------------
(* Recommendation *)

\* C4, as claimed: a recommendation holds min(k, len(C)) entries when k >= 0
\* and none when k <= 0, negative k included.
C4_TopKBounds ==
    last.op = "recommend" =>
        Len(last.ret) = IF last.recommendations <= 0 THEN 0
                        ELSE Min(last.recommendations, Len(working_list))

\* C8: the recommendation is a prefix of the scored words put in descending
\* order of score: its scores descend, every scored word left out scores no
\* more than any word returned, words of equal score come in the order in
\* which they were scored, a word left out that ties with a returned one was
\* scored after it, and for k >= 0 it holds min(k, n) of the n scored words.
C8_TopKDescendingStable ==
    last.op = "recommend" =>
        LET ret == last.ret
            out == {i \in DOMAIN scored_words :
                       \A j \in DOMAIN ret : ret[j] # scored_words[i]}
        IN  /\ \A j \in DOMAIN ret : \E i \in DOMAIN scored_words : ret[j] = scored_words[i]
            /\ \A i, j \in DOMAIN ret : i < j =>
                  /\ ret[i][2] >= ret[j][2]
                  /\ ret[i][1] # ret[j][1]
                  /\ ret[i][2] = ret[j][2] =>
                        DictIndex(scored_words, ret[i][1]) < DictIndex(scored_words, ret[j][1])
            /\ \A j \in DOMAIN ret : \A i \in out :
                  /\ ret[j][2] >= scored_words[i][2]
                  /\ ret[j][2] = scored_words[i][2] =>
                        DictIndex(scored_words, ret[j][1]) < i
            /\ last.recommendations >= 0 =>
                  Len(ret) = Min(last.recommendations, Len(scored_words))

\* A recommendation of at least two words that holds a tie and a strict
\* descent, and leaves a scored word out.
C8_Witness ==
    /\ last.op = "recommend"
    /\ Len(last.ret) \in 2..(Len(scored_words) - 1)
    /\ \E i \in DOMAIN last.ret : i > 1 /\ last.ret[i - 1][2] = last.ret[i][2]
    /\ \E i \in DOMAIN last.ret : i > 1 /\ last.ret[i - 1][2] > last.ret[i][2]

----------------------------------------------------------------------------
(* Malformed input *)

\* C5, as claimed: a call with a guess or a key whose length is not WordLen
\* fails and leaves the working list as it was.
C5_BadLengthRejected ==
    [][(/\ last'.op = "refine"
        /\ (Len(last'.guess) # WordLen \/ Len(last'.result_key) # WordLen))
        => (last'.outcome # "ok" /\ working_list' = working_list)]_vars

\* C6, as claimed: a call whose key holds a mark that is not recognized fails
\* and leaves the working list as it was.
C6_UnknownMarkRejected ==
    [][(/\ last'.op = "refine"
        /\ \E i \in DOMAIN last'.result_key : last'.result_key[i] \notin Marks)
        => (last'.outcome # "ok" /\ working_list' = working_list)]_vars

----------------------------------------------------------------------------
(* Several sessions *)

\* C7, as claimed: a session start or a call in one session changes neither
\* the dictionary, once loaded, nor the working list, the letter counts or
\* the scored words of any other session.  Every session reads the working
\* list and the scored words of the class.
C7_SessionsIsolated ==
    [][\A s \in Sessions :
          (last'.self = s /\ last'.op \in {"init", "refine"})
          => /\ valid_words # <<>> => valid_words' = valid_words
             /\ \A t \in objects \ {s} :
                   /\ working_list' = working_list
                   /\ letter_count'[t] = letter_count[t]
                   /\ scored_words' = scored_words]_vars

====
